---------------------------- MODULE Spec2Model ----------------------------
(***************************************************************************)
(* State-machine model of three view components of ibm-products:           *)
(*   - ExportModal   (src/unnamed/part_000)                                *)
(*   - ModifiedTabs  (experimental-package/.../ModifiedTabs.js)            *)
(*   - TagOverflow   (documented in TagOverflow.mdx)                       *)
(* Strings are sequences of one-character strings; '' is << >>.            *)
(***************************************************************************)
EXTENDS Integers, Sequences, FiniteSets

VARIABLES
    \* ---- ExportModal: component state (useState) ----
    name, dirtyInput, extension,
    \* ---- ExportModal: props supplied by the host ----
    filename, preformattedExtensions, validExtensions,
    loading, error, successful, open,
    inputType, inputInvalid, onRequestSubmit,
    \* ---- ExportModal: callbacks invoked by the last handler ----
    calls,
    \* ---- ModifiedTabs: props and last event ----
    tabs, onNewTab, onCloseTab, tabEvent, tabCalls,
    \* ---- TagOverflow ----
    tags, visibleCount, popoverOpen, modalOpen

exportVars == <<name, dirtyInput, extension, filename, preformattedExtensions,
                validExtensions, loading, error, successful, open,
                inputType, inputInvalid, onRequestSubmit, calls>>
tabVars == <<tabs, onNewTab, onCloseTab, tabEvent, tabCalls>>
tagVars == <<tags, visibleCount, popoverOpen, modalOpen>>
vars == <<exportVars, tabVars, tagVars>>

---------------------------------------------------------------------------
(* Bounds *)
MaxLen == 3      \* longest text the user types into the name input
MaxTabs == 3     \* number of distinct tab ids the host may supply
MaxTags == 12    \* largest tag collection

---------------------------------------------------------------------------
(* String helpers (JavaScript String.prototype) *)

Chars == {"a", ".", " "}

RECURSIVE StringsUpTo(_)
StringsUpTo(n) ==
    IF n = 0 THEN {<< >>}
    ELSE LET shorter == StringsUpTo(n - 1)
         IN  shorter \cup {Append(s, c) : s \in shorter, c \in Chars}

Names == StringsUpTo(MaxLen)

\* a JS string is truthy iff it is not ''
Truthy(s) == s # << >>

IsSpace(c) == c = " "

RECURSIVE TrimStart(_)
TrimStart(s) ==
    IF s # << >> /\ IsSpace(Head(s)) THEN TrimStart(Tail(s)) ELSE s

RECURSIVE TrimEnd(_)
TrimEnd(s) ==
    IF s # << >> /\ IsSpace(s[Len(s)])
    THEN TrimEnd(SubSeq(s, 1, Len(s) - 1))
    ELSE s

\* String.prototype.trim
Trim(s) == TrimEnd(TrimStart(s))

\* String.prototype.includes(ch)
Includes(s, ch) == \E i \in DOMAIN s : s[i] = ch

\* String.prototype.split('.')
RECURSIVE Split(_)
Split(s) ==
    IF ~Includes(s, ".") THEN <<s>>
    ELSE LET i == CHOOSE k \in DOMAIN s :
                      s[k] = "." /\ \A j \in 1..(k - 1) : s[j] # "."
         IN  <<SubSeq(s, 1, i - 1)>> \o Split(SubSeq(s, i + 1, Len(s)))

\* Array.prototype.pop (the value returned)
Pop(arr) == arr[Len(arr)]

LowerChar(c) == IF c = "A" THEN "a" ELSE IF c = "B" THEN "b" ELSE c

\* String.prototype.toLocaleLowerCase
ToLocaleLowerCase(s) == [i \in DOMAIN s |-> LowerChar(s[i])]

---------------------------------------------------------------------------
(* ExportModal: input domains *)

\* values of the filename prop
Filenames == {<< >>, <<"a">>, <<"a", ".">>}

\* preformattedExtensions: each entry is represented by its extension
\* string (the description is only displayed); << >> is the default.
PreformattedLists ==
    {<< >>, <<<<"A">>>>, <<<<"b">>, <<"A">>>>, <<<<"A">>, <<"b">>>>}

\* validExtensions: the default [] and an allow-list
ValidExtensionSets == {{}, {<<"a">>, <<"a", "a">>}}

InputTypes == {"text", "password"}

---------------------------------------------------------------------------
(* ExportModal: derived values computed on every render *)

\* the effect with the setExtension call left out
EffectExtensionStale(pre, ext) == ext

\* useEffect body: value given to setExtension (or the state left as is)
EffectExtension(pre, ext) ==
    IF Len(pre) > 0 /\ Truthy(pre[1]) THEN pre[1] ELSE ext

\* returnName without the toLocaleLowerCase call
ReturnNameAsTyped ==
    IF Truthy(extension)
    THEN filename \o <<".">> \o extension
    ELSE name

\* onSubmitHandler: returnName
ReturnName ==
    IF Truthy(extension)
    THEN filename \o <<".">> \o ToLocaleLowerCase(extension)
    ELSE name

\* hasInvalidExtension without the name.includes('.') test
hasInvalidExtensionNoDotTest ==
    IF ~dirtyInput \/ validExtensions = {} THEN FALSE
    ELSE IF Pop(Split(name)) \notin validExtensions THEN TRUE
    ELSE FALSE

hasInvalidExtension ==
    IF ~dirtyInput \/ validExtensions = {} THEN FALSE
    ELSE IF ~Includes(name, ".") THEN TRUE
    ELSE IF Pop(Split(name)) \notin validExtensions THEN TRUE
    ELSE FALSE

primaryButtonDisabled ==
    \/ inputInvalid
    \/ loading
    \/ (IF inputType = "text" THEN ~Truthy(Trim(name)) ELSE ~Truthy(name))
    \/ hasInvalidExtension

submitted == loading \/ error \/ successful

\* {!submitted && ( ... form ... )}
FormRendered == ~submitted

\* preformattedExtensions.length ? <RadioButtonGroup> : <TextInput>
RadioGroupRendered == FormRendered /\ Len(preformattedExtensions) > 0
InputRendered == FormRendered /\ Len(preformattedExtensions) = 0

\* a footer rendered in every state
FooterAlways == TRUE

\* {!submitted && ( <ModalFooter> ... )}
FooterRendered == ~submitted

\* a messaging block that shows the error message whenever submitted
MessagingErrorOnSubmitted ==
    (IF loading THEN {"loading"} ELSE {})
    \cup (IF successful THEN {"success"} ELSE {})
    \cup (IF submitted THEN {"error"} ELSE {})

\* messaging block: which of the three messages are rendered
Messaging ==
    (IF loading THEN {"loading"} ELSE {})
    \cup (IF successful THEN {"success"} ELSE {})
    \cup (IF error THEN {"error"} ELSE {})

---------------------------------------------------------------------------
(* ExportModal: actions *)

TabFrame == UNCHANGED <<tabVars, tagVars>>

\* useEffect(..., [filename, preformattedExtensions, open]) run with the
\* new props fn and pre
RunEffect(fn, pre) ==
    /\ name' = fn
    /\ extension' = EffectExtension(pre, extension)

ExportInit ==
    /\ filename \in Filenames
    /\ preformattedExtensions \in PreformattedLists
    /\ validExtensions \in ValidExtensionSets
    /\ loading \in BOOLEAN /\ error \in BOOLEAN /\ successful \in BOOLEAN
    /\ open \in BOOLEAN
    /\ inputType \in InputTypes
    /\ inputInvalid \in BOOLEAN
    /\ onRequestSubmit \in BOOLEAN
    \* useState initial values followed by the mount run of the effect
    /\ name = filename
    /\ dirtyInput = FALSE
    /\ extension = EffectExtension(preformattedExtensions, << >>)
    /\ calls = << >>

\* host changes the filename prop
HostSetFilename(fn) ==
    /\ fn # filename
    /\ filename' = fn
    /\ RunEffect(fn, preformattedExtensions)
    /\ calls' = << >>
    /\ UNCHANGED <<dirtyInput, preformattedExtensions, validExtensions,
                   loading, error, successful, open, inputType,
                   inputInvalid, onRequestSubmit>>

\* host passes a preformattedExtensions array (a new array object, with new
\* or with the same content: the effect compares by identity)
HostSetPreformatted(pre) ==
    /\ preformattedExtensions' = pre
    /\ RunEffect(filename, pre)
    /\ calls' = << >>
    /\ UNCHANGED <<dirtyInput, filename, validExtensions,
                   loading, error, successful, open, inputType,
                   inputInvalid, onRequestSubmit>>

\* host closes the dialog
HostClose ==
    /\ open
    /\ open' = FALSE
    /\ RunEffect(filename, preformattedExtensions)
    /\ calls' = << >>
    /\ UNCHANGED <<dirtyInput, filename, preformattedExtensions,
                   validExtensions, loading, error, successful, inputType,
                   inputInvalid, onRequestSubmit>>

\* host (re)opens the dialog, possibly for another target filename
HostOpen(fn) ==
    /\ ~open
    /\ open' = TRUE
    /\ filename' = fn
    /\ RunEffect(fn, preformattedExtensions)
    /\ calls' = << >>
    /\ UNCHANGED <<dirtyInput, preformattedExtensions,
                   validExtensions, loading, error, successful, inputType,
                   inputInvalid, onRequestSubmit>>

\* host drives the outcome flags (three independent boolean props)
HostSetOutcome(l, e, s) ==
    /\ <<l, e, s>> # <<loading, error, successful>>
    /\ loading' = l /\ error' = e /\ successful' = s
    /\ calls' = << >>
    /\ UNCHANGED <<name, dirtyInput, extension, filename,
                   preformattedExtensions, validExtensions, open,
                   inputType, inputInvalid, onRequestSubmit>>

\* host changes props that are not dependencies of the effect
HostSetValidExtensions(E) ==
    /\ E # validExtensions
    /\ validExtensions' = E
    /\ calls' = << >>
    /\ UNCHANGED <<name, dirtyInput, extension, filename,
                   preformattedExtensions, loading, error, successful,
                   open, inputType, inputInvalid, onRequestSubmit>>

HostSetInput(t, inv, cb) ==
    /\ <<t, inv, cb>> # <<inputType, inputInvalid, onRequestSubmit>>
    /\ inputType' = t /\ inputInvalid' = inv /\ onRequestSubmit' = cb
    /\ calls' = << >>
    /\ UNCHANGED <<name, dirtyInput, extension, filename,
                   preformattedExtensions, validExtensions, loading, error,
                   successful, open>>

\* onNameChangeHandler
onNameChangeHandler(value) ==
    /\ open /\ InputRendered
    /\ name' = value
    /\ calls' = << >>
    /\ UNCHANGED <<dirtyInput, extension, filename,
                   preformattedExtensions, validExtensions, loading, error,
                   successful, open, inputType, inputInvalid,
                   onRequestSubmit>>

\* onBlurHandler
onBlurHandler ==
    /\ open /\ InputRendered
    /\ dirtyInput' = TRUE
    /\ calls' = << >>
    /\ UNCHANGED <<name, extension, filename,
                   preformattedExtensions, validExtensions, loading, error,
                   successful, open, inputType, inputInvalid,
                   onRequestSubmit>>

\* onExtensionChangeHandler, called with the value of the clicked radio
onExtensionChangeHandler(i) ==
    /\ open /\ RadioGroupRendered
    /\ i \in DOMAIN preformattedExtensions
    /\ extension' = preformattedExtensions[i]
    /\ calls' = << >>
    /\ UNCHANGED <<name, dirtyInput, filename,
                   preformattedExtensions, validExtensions, loading, error,
                   successful, open, inputType, inputInvalid,
                   onRequestSubmit>>

\* click on the primary button: onSubmitHandler
onSubmitHandler ==
    /\ open /\ FooterRendered /\ ~primaryButtonDisabled
    /\ calls' = IF onRequestSubmit THEN <<ReturnName>> ELSE << >>
    /\ UNCHANGED <<name, dirtyInput, extension, filename,
                   preformattedExtensions, validExtensions, loading, error,
                   successful, open, inputType, inputInvalid,
                   onRequestSubmit>>

---------------------------------------------------------------------------
(* Values of the other components while one component is explored *)

TabIdle ==
    /\ tabs = << >> /\ onNewTab = FALSE /\ onCloseTab = FALSE
    /\ tabEvent = [type |-> "mount", id |-> "none"] /\ tabCalls = << >>

TagIdle ==
    /\ tags = << >> /\ visibleCount = 0
    /\ popoverOpen = FALSE /\ modalOpen = FALSE

ExportIdle ==
    /\ filename = <<"a">> /\ preformattedExtensions = << >>
    /\ validExtensions = {}
    /\ loading = FALSE /\ error = FALSE /\ successful = FALSE
    /\ open = FALSE /\ inputType = "text" /\ inputInvalid = FALSE
    /\ onRequestSubmit = FALSE
    /\ name = <<"a">> /\ dirtyInput = FALSE /\ extension = << >>
    /\ calls = << >>

---------------------------------------------------------------------------
(* ExportModal specification *)

Init == ExportInit /\ TabIdle /\ TagIdle

Next ==
    \/ \E fn \in Filenames : HostSetFilename(fn) /\ TabFrame
    \/ \E pre \in PreformattedLists : HostSetPreformatted(pre) /\ TabFrame
    \/ HostClose /\ TabFrame
    \/ \E fn \in Filenames : HostOpen(fn) /\ TabFrame
    \/ \E l, e, s \in BOOLEAN : HostSetOutcome(l, e, s) /\ TabFrame
    \/ \E E \in ValidExtensionSets : HostSetValidExtensions(E) /\ TabFrame
    \/ \E t \in InputTypes, inv, cb \in BOOLEAN :
           HostSetInput(t, inv, cb) /\ TabFrame
    \/ \E value \in Names : onNameChangeHandler(value) /\ TabFrame
    \/ onBlurHandler /\ TabFrame
    \/ \E i \in 1..Len(preformattedExtensions) :
           onExtensionChangeHandler(i) /\ TabFrame
    \/ onSubmitHandler /\ TabFrame

Spec == Init /\ [][Next]_vars

---------------------------------------------------------------------------
(* ModifiedTabs *)

AllTabIds == <<"tab-1", "tab-2", "tab-3", "tab-4", "tab-5">>
TabIds == {AllTabIds[i] : i \in 1..MaxTabs}

\* tabs prop: entries with ids unique within the strip (only the id of an
\* entry is modelled; label and content are displayed as given)
TabLists ==
    {t \in UNION {[1..n -> TabIds] : n \in 0..MaxTabs} :
        \A i, j \in DOMAIN t : i # j => t[i] # t[j]}

\* the 'tab-new' Tab rendered only when a handler is supplied
RenderedTabsNewIfHandler ==
    [i \in DOMAIN tabs |-> [id |-> tabs[i], kind |-> "tab"]]
        \o (IF onNewTab THEN <<[id |-> "tab-new", kind |-> "new"]>>
            ELSE << >>)

\* the children of <Tabs>: tabs.map(...) followed by the 'tab-new' Tab
RenderedTabs ==
    [i \in DOMAIN tabs |-> [id |-> tabs[i], kind |-> "tab"]]
        \o <<[id |-> "tab-new", kind |-> "new"]>>

\* handleNewTab: the callbacks it invokes
NewTabCalls ==
    IF onNewTab THEN <<[cb |-> "onNewTab", arg |-> "none"]>> ELSE << >>

\* handleClose passed on without the tab id
CloseCallsNoId(id) ==
    IF onCloseTab THEN <<[cb |-> "onCloseTab", arg |-> "none"]>> ELSE << >>

\* handleClose(id): the callbacks it invokes
CloseCalls(id) ==
    IF onCloseTab THEN <<[cb |-> "onCloseTab", arg |-> id]>> ELSE << >>

TabInit ==
    /\ tabs \in TabLists
    /\ onNewTab \in BOOLEAN
    /\ onCloseTab \in BOOLEAN
    /\ tabEvent = [type |-> "mount", id |-> "none"]
    /\ tabCalls = << >>

\* host re-renders with a new tabs list and/or other handlers
HostSetTabs(t, n, c) ==
    /\ <<t, n, c>> # <<tabs, onNewTab, onCloseTab>>
    /\ tabs' = t /\ onNewTab' = n /\ onCloseTab' = c
    /\ tabEvent' = [type |-> "props", id |-> "none"]
    /\ tabCalls' = << >>

\* click on the trailing 'new tab' label
handleNewTab ==
    /\ tabEvent' = [type |-> "new", id |-> "none"]
    /\ tabCalls' = NewTabCalls
    /\ UNCHANGED <<tabs, onNewTab, onCloseTab>>

\* click on the close control of the tab at position i
handleClose(i) ==
    /\ i \in DOMAIN tabs
    /\ tabEvent' = [type |-> "close", id |-> tabs[i]]
    /\ tabCalls' = CloseCalls(tabs[i])
    /\ UNCHANGED <<tabs, onNewTab, onCloseTab>>

TabsInit == ExportIdle /\ TabInit /\ TagIdle

TabsNext ==
    \/ \E t \in TabLists, n, c \in BOOLEAN :
           HostSetTabs(t, n, c) /\ UNCHANGED <<exportVars, tagVars>>
    \/ handleNewTab /\ UNCHANGED <<exportVars, tagVars>>
    \/ \E i \in 1..MaxTabs :
           handleClose(i) /\ UNCHANGED <<exportVars, tagVars>>

SpecTabs == TabsInit /\ [][TabsNext]_vars

---------------------------------------------------------------------------
(* TagOverflow *)

\* number of overflow tags the toggletip lists
OverflowLimit == 10

\* a tag collection of n tags, each identified by its position
TagLists == {[i \in 1..n |-> i] : n \in 0..MaxTags}

\* the tags that do not fit, after the visibleCount shown ones
OverflowTags == SubSeq(tags, visibleCount + 1, Len(tags))

\* a toggletip that lists every overflow tag
PopoverTagsUncapped == OverflowTags

\* the tags listed in the toggletip
PopoverTags ==
    IF Len(OverflowTags) > OverflowLimit
    THEN SubSeq(OverflowTags, 1, OverflowLimit)
    ELSE OverflowTags

\* the 'view all' link of the toggletip
ViewAllLink == Len(OverflowTags) > OverflowLimit

\* the tags listed in the 'all tags' modal
AllTagsModalTags == tags

TagInit ==
    /\ tags \in TagLists
    /\ visibleCount \in 0..Len(tags)
    /\ popoverOpen = FALSE
    /\ modalOpen = FALSE

\* host supplies another collection; the fitting count is measured again
HostSetTags(t, v) ==
    /\ v \in 0..Len(t)
    /\ <<t, v>> # <<tags, visibleCount>>
    /\ tags' = t /\ visibleCount' = v
    /\ popoverOpen' = FALSE /\ modalOpen' = FALSE

\* click on the overflow count tag
ClickOverflowTag ==
    /\ Len(OverflowTags) > 0 /\ ~modalOpen
    /\ popoverOpen' = ~popoverOpen
    /\ UNCHANGED <<tags, visibleCount, modalOpen>>

\* click on the 'view all' link inside the toggletip
ClickViewAll ==
    /\ popoverOpen /\ ViewAllLink
    /\ modalOpen' = TRUE /\ popoverOpen' = FALSE
    /\ UNCHANGED <<tags, visibleCount>>

CloseAllTagsModal ==
    /\ modalOpen
    /\ modalOpen' = FALSE
    /\ UNCHANGED <<tags, visibleCount, popoverOpen>>

TagsInit == ExportIdle /\ TabIdle /\ TagInit

TagsNext ==
    \/ \E t \in TagLists, v \in 0..MaxTags :
           HostSetTags(t, v) /\ UNCHANGED <<exportVars, tabVars>>
    \/ ClickOverflowTag /\ UNCHANGED <<exportVars, tabVars>>
    \/ ClickViewAll /\ UNCHANGED <<exportVars, tabVars>>
    \/ CloseAllTagsModal /\ UNCHANGED <<exportVars, tabVars>>

SpecTags == TagsInit /\ [][TagsNext]_vars

(* Properties *)

AtMostOneOf(a, b, c) == ~(a /\ b) /\ ~(a /\ c) /\ ~(b /\ c)

\* the name has a character that is not white space
NonBlank(n) == \E i \in DOMAIN n : ~IsSpace(n[i])

\* n has a '.' and what follows its last '.' is a member of E
SuffixAfterLastDotIn(n, E) ==
    \E i \in DOMAIN n :
        /\ n[i] = "."
        /\ \A j \in (i + 1)..Len(n) : n[j] # "."
        /\ SubSeq(n, i + 1, Len(n)) \in E

FreeTextMode == Len(preformattedExtensions) = 0

\* C1: in free-text mode with inputType 'text', not loading and
\* inputProps.invalid unset, the primary button is enabled iff the name
\* trimmed is non-empty and, once the input is dirty, the permitted set is
\* empty or the name has a '.' whose last one is followed by a permitted
\* extension.
C1_FreeTextValidity ==
    (FreeTextMode /\ inputType = "text" /\ ~loading /\ ~inputInvalid)
        => (~primaryButtonDisabled <=>
               /\ NonBlank(name)
               /\ dirtyInput =>
                     \/ validExtensions = {}
                     \/ SuffixAfterLastDotIn(name, validExtensions))

\* a dirty name without '.' that is itself a permitted extension is rejected
C1_Witness ==
    /\ FreeTextMode /\ inputType = "text" /\ ~loading /\ ~inputInvalid
    /\ open /\ dirtyInput /\ name \in validExtensions
    /\ primaryButtonDisabled

C3_NoSubmitWhileSubmitted ==
    calls # << >> => ~(loading \/ error \/ successful)

C3_Witness == calls # << >> /\ dirtyInput /\ inputType = "password"

\* C4: reopening the dialog with a new filename prop sets name to the new
\* filename, the selected extension to the default (first preformatted
\* option, or none) and the dirty flag to false.
C4_ReopenResets ==
    [][ (~open /\ open' /\ filename' # filename)
        => /\ name' = filename'
           /\ extension' = (IF Len(preformattedExtensions') > 0
                            THEN preformattedExtensions'[1] ELSE << >>)
           /\ dirtyInput' = FALSE ]_vars

C6_PopoverCap ==
    /\ Len(PopoverTags) <= 10
    /\ Len(PopoverTags) <= Len(tags) - visibleCount
    /\ \A i \in DOMAIN PopoverTags : PopoverTags[i] = tags[visibleCount + i]
    /\ ViewAllLink <=> (Len(tags) - visibleCount > 10)
    /\ modalOpen => (AllTagsModalTags = tags /\ Len(tags) - visibleCount > 10)

C6_Witness == popoverOpen /\ Len(tags) - visibleCount > 10

\* C7: the rendered strip is one tab per entry of tabs, in order, followed
\* by exactly one 'tab-new' entry, with or without an onNewTab handler; a
\* click on it invokes onNewTab once when supplied and nothing otherwise.
C7_TrailingNewTab ==
    /\ Len(RenderedTabs) = Len(tabs) + 1
    /\ \A i \in DOMAIN tabs :
           RenderedTabs[i] = [id |-> tabs[i], kind |-> "tab"]
    /\ RenderedTabs[Len(tabs) + 1] = [id |-> "tab-new", kind |-> "new"]
    /\ tabEvent.type = "new"
           => tabCalls = (IF onNewTab
                          THEN <<[cb |-> "onNewTab", arg |-> "none"]>>
                          ELSE << >>)

C7_Witness == tabEvent.type = "new" /\ ~onNewTab /\ Len(tabs) = 2

\* C8: closing the tab with id i invokes onCloseTab once with i, or no
\* callback when it is not supplied, and neither a close nor a new-tab
\* click changes the tabs that are rendered: they are the host's tabs prop.
C8_CloseDelegates ==
    /\ []( tabEvent.type = "close"
           => tabCalls = (IF onCloseTab
                          THEN <<[cb |-> "onCloseTab", arg |-> tabEvent.id]>>
                          ELSE << >>) )
    /\ []( SubSeq(RenderedTabs, 1, Len(RenderedTabs) - 1)
             = [i \in DOMAIN tabs |-> [id |-> tabs[i], kind |-> "tab"]] )
    /\ [][ tabEvent'.type \in {"close", "new"} => tabs' = tabs ]_vars

C8_Witness ==
    /\ tabEvent.type = "close" /\ onCloseTab /\ Len(tabs) = 2
    /\ tabEvent.id = tabs[2]

\* C9: in free-text mode a submit passes exactly the current text of the
\* name input to onRequestSubmit.
C9_FreeTextSubmitsName ==
    (FreeTextMode /\ calls # << >>) => calls = <<name>>

=============================================================================
